---- MODULE Spec2Model ----
(***************************************************************************)
(* Model of arloader's upload pipeline and status journal (src/lib.rs).    *)
(*                                                                         *)
(* The specifications share the variables and the operators:               *)
(*   SpecTx     one caller making, signing and posting transactions;       *)
(*   SpecApi    one caller invoking upload_file_from_path, write_status,   *)
(*              read_status and update_status one after the other;         *)
(*   SpecQuery  read_statuses, filter_statuses and status_summary over     *)
(*              the status files earlier calls have left;                  *)
(*   Spec       the two streams, upload_files_stream and                   *)
(*              update_statuses_stream, whose tasks interleave at their    *)
(*              await points under buffer_unordered;                       *)
(*   SpecJoin   upload_files_from_paths, its uploads interleaving under    *)
(*              try_join_all.                                              *)
(*                                                                         *)
(* Values of Rust's Option<T> are sets with at most one element.  A        *)
(* Base64 byte string is a tuple, the empty tuple being the empty string.  *)
(***************************************************************************)
EXTENDS Integers, Sequences, FiniteSets, TLC

VARIABLES
    journal,   \* the status files: journal[log_dir][file name] is the file
    now,       \* the clock read by Utc::now()
    direct,    \* the last call made by the caller and what came back
    call,      \* the stream or batch call under way (its arguments and progress)
    tasks,     \* the per-path futures of the stream or batch call
    emitted    \* the outputs of the completed futures, in order of completion

vars == <<journal, now, direct, call, tasks, emitted>>

----------------------------------------------------------------------------
(* Bounds *)

MaxClock    == 1     \* the clock ticks at most this far
MaxReward   == 1     \* prices and rewards range over 1..MaxReward
MaxConfirms == 1     \* number_of_confirmations ranges over 0..MaxConfirms
MaxBuffer   == 2     \* buffer ranges over 1..MaxBuffer

Paths    == {"a.png", "b.png", "c.png"}
LogDirs  == {"logs", "logs2"}
StreamLogDirs == {"logs"}
Anchors  == {<<"anchor">>}
Rewards  == 1..MaxReward

----------------------------------------------------------------------------
(* Data model *)

None == {}
Some(x) == {x}
Unwrap(o) == CHOOSE x \in o : TRUE

EmptyB64 == <<>>

StatusCodes == {"Submitted", "Pending", "NotFound", "Confirmed", "Failed"}

RawStatuses ==
    [block_height : {7}, number_of_confirmations : 0..MaxConfirms]

\* Transaction { id, last_tx, reward, data, tags, signature, .. }: the fields
\* the pipeline reads; NoTransaction stands where none has been made yet.
NoTransaction ==
    [id |-> EmptyB64, last_tx |-> EmptyB64, reward |-> 0, data |-> EmptyB64,
     tags |-> <<>>, signature |-> EmptyB64]

\* Status { id, status, file_path, created_at, last_modified, reward, raw_status }
Status(id, status, file_path, created_at, last_modified, reward, raw_status) ==
    [id |-> id, status |-> status, file_path |-> file_path,
     created_at |-> created_at, last_modified |-> last_modified,
     reward |-> reward, raw_status |-> raw_status]

\* Results: Ok(value), Err(error) or a panic that unwinds the caller.
Ok(v)    == [kind |-> "Ok",    err |-> <<>>, val |-> {v}]
Err(e)   == [kind |-> "Err",   err |-> e,    val |-> {}]
Panic(m) == [kind |-> "Panic", err |-> m,    val |-> {}]
NoResult == [kind |-> "None",  err |-> <<>>, val |-> {}]

IsOk(r) == r.kind = "Ok"

----------------------------------------------------------------------------
(* Errors (error::ArweaveError and the errors converted into it by `?`) *)

UnsignedTransaction == <<"UnsignedTransaction">>
MissingFilePath     == <<"MissingFilePath">>
StatusNotFound      == <<"StatusNotFound">>
IoError             == <<"io::Error">>
ReqwestError        == <<"reqwest::Error">>
SerdeJsonError      == <<"serde_json::Error">>
CryptoError         == <<"crypto error">>
PostFailed(code)    == <<"PostFailed", code>>
UnexpectedStatus(code) == <<"UnexpectedStatus", code>>

----------------------------------------------------------------------------
(* The environment: what the network and the file system answer *)

\* A response of the network: failed (no response) or an HTTP code with a body.
\* body is "" where the code does not read it.
NetFail == [ok |-> FALSE, code |-> 0, body |-> "", raw |-> None]
Http(code, body, raw) == [ok |-> TRUE, code |-> code, body |-> body, raw |-> raw]

PostResponses ==
    {NetFail} \cup {Http(c, "", None) : c \in {200, 400, 503}}

StatusResponses ==
    {NetFail, Http(200, "Pending", None), Http(200, "garbage", None),
     Http(202, "", None), Http(404, "", None), Http(500, "", None)}
    \cup {Http(200, "object", Some(r)) : r \in RawStatuses}

\* What create_transaction_from_file_path meets: the file read, the answer
\* of tx_anchor, the answer of price/{bytes} and of the USD oracle.  The
\* requests are made in this order and the first failure ends the call, so
\* the answers after a failure are left at a fixed value.
CreateEnv(read, anchor, price, oracle) ==
    [read |-> read, anchor |-> anchor, price |-> price, oracle |-> oracle]

CreateEnvs ==
    {CreateEnv(FALSE, None, None, FALSE)}
    \cup {CreateEnv(TRUE, Some(a), None, FALSE) : a \in Anchors}
    \cup {CreateEnv(TRUE, None, Some(n), TRUE) : n \in Rewards}
    \cup {CreateEnv(TRUE, Some(a), Some(n), o) :
              a \in Anchors, n \in Rewards, o \in BOOLEAN}

\* std::fs::write creates or truncates the file and then writes the bytes:
\* it succeeds, fails before touching the file, or fails after truncating.
WriteOutcomes == {"ok", "err", "partial"}

----------------------------------------------------------------------------
(* The status files *)

AbsentFile      == [kind |-> "absent",  text |-> None]
PartialFile     == [kind |-> "partial", text |-> None]
JsonFile(text)  == [kind |-> "json",    text |-> Some(text)]

\* A file name that does not depend on the path.
StatusFileName_fixed(file_path) == <<"blake3", "a.png", "json">>

\* A file name on which two of the paths collide.
StatusFileName_colliding(file_path) ==
    <<"blake3", IF file_path = "b.png" THEN "a.png" ELSE file_path, "json">>

\* blake3::hash(file_path.to_str().unwrap().as_bytes()).to_string() with
\* the extension "json": one name per path (no collisions among Paths).
StatusFileName(file_path) == <<"blake3", file_path, "json">>

FileNames == {StatusFileName(p) : p \in Paths}

\* serde_json::to_string(&status): status.rs is not part of the sources, the
\* layout is the one of the specification (a JSON object with the fields of
\* the record; the status code by name, the timestamps in RFC 3339).
to_json(status) ==
    [id            |-> <<"b64">> \o status.id,
     status        |-> <<"str", status.status>>,
     file_path     |-> status.file_path,
     created_at    |-> <<"rfc3339", status.created_at>>,
     last_modified |-> <<"rfc3339", status.last_modified>>,
     reward        |-> status.reward,
     raw_status    |-> status.raw_status]

\* serde_json::from_str::<Status>(&data)
from_json(text) ==
    IF text.status[2] \in StatusCodes /\ text.id[1] = "b64"
    THEN Ok(Status(Tail(text.id), text.status[2], text.file_path,
                   text.created_at[2], text.last_modified[2], text.reward,
                   text.raw_status))
    ELSE Err(SerdeJsonError)

EmptyJournal == [d \in LogDirs |-> [f \in FileNames |-> AbsentFile]]

\* A write that reports success and leaves the directory as it was.
fs_write_nothing(fs, log_dir, name, contents, io) == fs

\* A write that keeps a file that is already there.
fs_write_create_new(fs, log_dir, name, contents, io) ==
    IF io = "ok" /\ fs[log_dir][name].kind = "absent"
    THEN [fs EXCEPT ![log_dir][name] = contents]
    ELSE fs

\* fs::write(path, contents)
fs_write(fs, log_dir, name, contents, io) ==
    CASE io = "ok"      -> [fs EXCEPT ![log_dir][name] = contents]
      [] io = "partial" -> [fs EXCEPT ![log_dir][name] = PartialFile]
      [] OTHER          -> fs

\* write_status checking the id after the file has been written.
write_status_late_check(fs, status, log_dir, io) ==
    IF status.file_path # None
    THEN LET fs2 == fs_write(fs, log_dir, StatusFileName(Unwrap(status.file_path)),
                             JsonFile(to_json(status)), io)
         IN  IF status.id = EmptyB64
             THEN [fs |-> fs2, res |-> Err(UnsignedTransaction)]
             ELSE [fs |-> fs2, res |-> IF io = "ok" THEN Ok(<<>>) ELSE Err(IoError)]
    ELSE [fs |-> fs, res |-> Err(MissingFilePath)]

\* Methods::write_status (lib.rs 350-367): [fs, res]
write_status(fs, status, log_dir, io) ==
    IF status.file_path # None
    THEN IF status.id = EmptyB64
         THEN [fs |-> fs, res |-> Err(UnsignedTransaction)]
         ELSE [fs  |-> fs_write(fs, log_dir,
                                StatusFileName(Unwrap(status.file_path)),
                                JsonFile(to_json(status)), io),
               res |-> IF io = "ok" THEN Ok(<<>>) ELSE Err(IoError)]
    ELSE [fs |-> fs, res |-> Err(MissingFilePath)]

\* Methods::read_status (lib.rs 369-383)
read_status(fs, file_path, log_dir) ==
    LET file == fs[log_dir][StatusFileName(file_path)]
    IN  IF file.kind # "absent"
        THEN IF file.kind = "json"
             THEN from_json(Unwrap(file.text))
             ELSE Err(SerdeJsonError)
        ELSE Err(StatusNotFound)

----------------------------------------------------------------------------
(* Transactions *)

\* The bytes of the file at file_path.
FileData(file_path) == <<"bytes of", file_path>>

\* Methods::create_transaction_from_file_path (lib.rs 236-295): [res, http].
\* The argument of reward.unwrap_or is evaluated before unwrap_or is
\* called, so the price and the oracle are requested whether or not reward
\* is given, and their failure is the failure of the call.
create_transaction_from_file_path(file_path, other_tags, last_tx, reward, env) ==
    LET anchorReq == IF last_tx = None THEN <<"GET tx_anchor">> ELSE <<>>
        tags == <<"Content-Type">> \o
                (IF other_tags # None THEN Unwrap(other_tags) ELSE <<>>)
    IN  IF ~env.read
        THEN [res |-> Err(IoError), http |-> <<>>]
        ELSE IF last_tx = None /\ env.anchor = None
        THEN [res |-> Err(ReqwestError), http |-> anchorReq]
        ELSE IF env.price = None
        THEN [res |-> Err(ReqwestError), http |-> anchorReq \o <<"GET price">>]
        ELSE IF ~env.oracle
        THEN [res  |-> Err(ReqwestError),
              http |-> anchorReq \o <<"GET price", "GET oracle">>]
        ELSE [res  |-> Ok([id        |-> EmptyB64,
                           last_tx   |-> IF last_tx # None THEN Unwrap(last_tx)
                                         ELSE Unwrap(env.anchor),
                           reward    |-> IF reward # None THEN Unwrap(reward)
                                         ELSE Unwrap(env.price),
                           data      |-> FileData(file_path),
                           tags      |-> tags,
                           signature |-> EmptyB64]),
              http |-> anchorReq \o <<"GET price", "GET oracle">>]

\* crypto.sign(deep_hash(transaction)): determined by the signed fields.
Signature(tx) == <<"sig", tx.data, tx.last_tx, tx.reward, tx.tags>>

\* Methods::sign_transaction (lib.rs 298-305)
sign_transaction(transaction, crypto_ok) ==
    IF ~crypto_ok
    THEN Err(CryptoError)
    ELSE Ok([transaction EXCEPT !.signature = Signature(transaction),
                                !.id = <<"sha256">> \o Signature(transaction)])

\* Status { id, reward, file_path, ..Default::default() }: the defaults are
\* those of the specification (Submitted, both timestamps now, no raw_status).
new_status(id, reward, file_path, t) ==
    Status(id, "Submitted", file_path, t, t, reward, None)

\* post_transaction without its check of the id.
post_transaction_unchecked(signed_transaction, file_path, resp, t) ==
    IF ~resp.ok
    THEN [res |-> Err(ReqwestError), http |-> <<"POST tx">>]
    ELSE IF resp.code # 200
    THEN [res |-> Panic(<<"assertion failed", resp.code>>), http |-> <<"POST tx">>]
    ELSE [res  |-> Ok(new_status(signed_transaction.id,
                                 signed_transaction.reward, file_path, t)),
          http |-> <<"POST tx">>]

\* Methods::post_transaction (lib.rs 307-336): [res, http].
\* assert_eq!(resp.status().as_u16(), 200) panics on any other code.
post_transaction(signed_transaction, file_path, resp, t) ==
    IF signed_transaction.id = EmptyB64
    THEN [res |-> Err(UnsignedTransaction), http |-> <<>>]
    ELSE IF ~resp.ok
    THEN [res |-> Err(ReqwestError), http |-> <<"POST tx">>]
    ELSE IF resp.code # 200
    THEN [res |-> Panic(<<"assertion failed", resp.code>>), http |-> <<"POST tx">>]
    ELSE [res  |-> Ok(new_status(signed_transaction.id,
                                 signed_transaction.reward, file_path, t)),
          http |-> <<"POST tx">>]

----------------------------------------------------------------------------
(* update_status *)

\* The match with raw_status reset in the arms that set Pending or NotFound.
apply_raw_status_resetting(status, resp, t) ==
    LET stamped == [status EXCEPT !.last_modified = t]
    IN  CASE resp.code = 200 ->
              IF resp.body = "Pending"
              THEN Ok([stamped EXCEPT !.status = "Pending", !.raw_status = None])
              ELSE IF resp.raw # None
              THEN Ok([stamped EXCEPT !.raw_status = resp.raw,
                                      !.status = "Confirmed"])
              ELSE Err(SerdeJsonError)
          [] resp.code = 202 ->
              Ok([stamped EXCEPT !.status = "Pending", !.raw_status = None])
          [] resp.code = 404 ->
              Ok([stamped EXCEPT !.status = "NotFound", !.raw_status = None])
          [] OTHER -> Panic(<<"unreachable", resp.code>>)

\* The match with a 404 arm that marks the record Failed.
apply_raw_status_failing(status, resp, t) ==
    LET stamped == [status EXCEPT !.last_modified = t]
    IN  CASE resp.code = 200 ->
              IF resp.body = "Pending"
              THEN Ok([stamped EXCEPT !.status = "Pending"])
              ELSE IF resp.raw # None
              THEN Ok([stamped EXCEPT !.raw_status = resp.raw,
                                      !.status = "Confirmed"])
              ELSE Err(SerdeJsonError)
          [] resp.code = 202 -> Ok([stamped EXCEPT !.status = "Pending"])
          [] resp.code = 404 -> Ok([stamped EXCEPT !.status = "Failed"])
          [] OTHER -> Panic(<<"unreachable", resp.code>>)

\* The match applied to a record whose created_at is set anew.
apply_raw_status_renewing(status, resp, t) ==
    LET stamped == [status EXCEPT !.last_modified = t, !.created_at = t]
    IN  CASE resp.code = 200 ->
              IF resp.body = "Pending"
              THEN Ok([stamped EXCEPT !.status = "Pending"])
              ELSE IF resp.raw # None
              THEN Ok([stamped EXCEPT !.raw_status = resp.raw,
                                      !.status = "Confirmed"])
              ELSE Err(SerdeJsonError)
          [] resp.code = 202 -> Ok([stamped EXCEPT !.status = "Pending"])
          [] resp.code = 404 -> Ok([stamped EXCEPT !.status = "NotFound"])
          [] OTHER -> Panic(<<"unreachable", resp.code>>)

\* The match marking the record Confirmed without reading the body.
apply_raw_status_unparsed(status, resp, t) ==
    LET stamped == [status EXCEPT !.last_modified = t]
    IN  CASE resp.code = 200 ->
              IF resp.body = "Pending"
              THEN Ok([stamped EXCEPT !.status = "Pending"])
              ELSE Ok([stamped EXCEPT !.status = "Confirmed"])
          [] resp.code = 202 -> Ok([stamped EXCEPT !.status = "Pending"])
          [] resp.code = 404 -> Ok([stamped EXCEPT !.status = "NotFound"])
          [] OTHER -> Panic(<<"unreachable", resp.code>>)

\* The match on the response in Methods::update_status (lib.rs 433-451),
\* applied to the status read: Ok(new status), Err or Panic.
apply_raw_status(status, resp, t) ==
    LET stamped == [status EXCEPT !.last_modified = t]
    IN  CASE resp.code = 200 ->
              IF resp.body = "Pending"
              THEN Ok([stamped EXCEPT !.status = "Pending"])
              ELSE IF resp.raw # None
              THEN Ok([stamped EXCEPT !.raw_status = resp.raw,
                                      !.status = "Confirmed"])
              ELSE Err(SerdeJsonError)
          [] resp.code = 202 -> Ok([stamped EXCEPT !.status = "Pending"])
          [] resp.code = 404 -> Ok([stamped EXCEPT !.status = "NotFound"])
          [] OTHER -> Panic(<<"unreachable", resp.code>>)

----------------------------------------------------------------------------
(* upload_file_from_path and update_status as futures: one step per await *)

\* A future of upload_file_from_path or of update_status.  pc is the step it
\* will run next; steps and http record the steps it has run and the
\* requests it has sent; status is the Status it holds (from the POST or
\* from the file read); code is the HTTP code of the last response it
\* received (0: none); res is its output once pc is "done" or "panicked".
NewTask(pc) ==
    [pc |-> pc, tx |-> NoTransaction, status |-> None, res |-> NoResult,
     steps |-> <<>>, http |-> <<>>, code |-> 0]

IdleTask == NewTask("idle")

\* The arguments shared by the futures of one call.
Args(log_dir, tags, last_tx, reward) ==
    [log_dir |-> log_dir, tags |-> tags, last_tx |-> last_tx, reward |-> reward]

\* What the steps of one future meet.
StepEnv(create, crypto, post, get, io) ==
    [create |-> create, crypto |-> crypto, post |-> post, get |-> get, io |-> io]

OkCreate == CreateEnv(TRUE, None, None, TRUE)

\* One environment per step of a future.
CreateStepEnvs == {StepEnv(c, TRUE, NetFail, NetFail, "ok") : c \in CreateEnvs}
SignStepEnvs   == {StepEnv(OkCreate, b, NetFail, NetFail, "ok") : b \in BOOLEAN}
PostStepEnvs   == {StepEnv(OkCreate, TRUE, r, NetFail, "ok") : r \in PostResponses}
GetStepEnvs    == {StepEnv(OkCreate, TRUE, NetFail, r, "ok") : r \in StatusResponses}
WriteStepEnvs  == {StepEnv(OkCreate, TRUE, NetFail, NetFail, io) : io \in WriteOutcomes}

\* The environments of a whole upload_file_from_path: each step's answer
\* matters only if the steps before it succeeded.
UploadEnvs ==
    {e \in [create : CreateEnvs, crypto : BOOLEAN, post : PostResponses,
            get : {NetFail}, io : WriteOutcomes] :
        /\ (~e.create.read \/ e.create.price = None \/ ~e.create.oracle)
              => (e.crypto /\ e.post = NetFail /\ e.io = "ok")
        /\ ~e.crypto => (e.post = NetFail /\ e.io = "ok")
        /\ e.post # Http(200, "", None) => e.io = "ok"}

\* The environments one upload with these arguments can tell apart: the
\* price is used only without reward, the status written only with log_dir.
UploadEnvsFor(args) ==
    {e \in UploadEnvs :
        /\ (args.reward # None /\ e.create.price # None)
              => e.create.price = Some(1)
        /\ args.log_dir = None => e.io = "ok"}

\* The environments of a whole update_status.
UpdateEnvs ==
    {e \in [create : {OkCreate}, crypto : {TRUE}, post : {NetFail},
            get : StatusResponses, io : WriteOutcomes] :
        (e.get.code \notin {200, 202, 404} \/ e.get.body = "garbage")
            => e.io = "ok"}

\* A future that attempts a failed step again.
Finish_retrying(task, step, http, res) ==
    IF res.kind = "Ok"
    THEN [task EXCEPT !.pc = "done", !.res = res, !.steps = @ \o <<step>>,
                      !.http = @ \o http]
    ELSE [task EXCEPT !.steps = @ \o <<step>>, !.http = @ \o http]

\* `?` and the final Ok: a step that did not return Ok ends the future with
\* that output (an Err is returned, a panic unwinds).
Finish(task, step, http, res) ==
    [task EXCEPT !.pc = IF res.kind = "Panic" THEN "panicked" ELSE "done",
                 !.res = res,
                 !.steps = @ \o <<step>>,
                 !.http = @ \o http]

\* upload_file_from_path posting the transaction as created.
UploadNext_skip_sign(pc, log_dir) ==
    CASE pc = "create"  -> "post"
      [] pc = "post"    -> IF log_dir # None THEN "write" ELSE "done"
      [] pc = "write"   -> "writing"
      [] OTHER          -> "done"

\* The order of the steps of upload_file_from_path (lib.rs 475-486).
UploadNext(pc, log_dir) ==
    CASE pc = "create"  -> "sign"
      [] pc = "sign"    -> "post"
      [] pc = "post"    -> IF log_dir # None THEN "write" ELSE "done"
      [] pc = "write"   -> "writing"
      [] OTHER          -> "done"

\* Methods::upload_file_from_path (lib.rs 467-487), one step: [task, fs].
\* "write" hands fs::write to the blocking pool, "writing" is its completion.
UploadStep(task, file_path, args, fs, env, t) ==
    LET next == UploadNext(task.pc, args.log_dir)
        go(step, http, tx, status) ==
            IF next = "done"
            THEN Finish([task EXCEPT !.tx = tx, !.status = status],
                        step, http, Ok(Unwrap(status)))
            ELSE [task EXCEPT !.pc = next, !.tx = tx, !.status = status,
                              !.steps = @ \o <<step>>, !.http = @ \o http]
    IN  CASE task.pc = "create" ->
              LET r == create_transaction_from_file_path(
                           file_path, args.tags, args.last_tx, args.reward,
                           env.create)
              IN  [fs   |-> fs,
                   task |-> IF IsOk(r.res)
                            THEN go("create", r.http, Unwrap(r.res.val), None)
                            ELSE Finish(task, "create", r.http, r.res)]
          [] task.pc = "sign" ->
              LET r == sign_transaction(task.tx, env.crypto)
              IN  [fs   |-> fs,
                   task |-> IF IsOk(r)
                            THEN go("sign", <<>>, Unwrap(r.val), None)
                            ELSE Finish(task, "sign", <<>>, r)]
          [] task.pc = "post" ->
              LET r == post_transaction(task.tx, Some(file_path), env.post, t)
                  answered == [task EXCEPT !.code = IF r.http # <<>>
                                                    THEN env.post.code ELSE @]
              IN  [fs   |-> fs,
                   task |-> IF IsOk(r.res)
                            THEN [go("post", r.http, task.tx, r.res.val)
                                     EXCEPT !.code = answered.code]
                            ELSE Finish(answered, "post", r.http, r.res)]
          [] task.pc = "write" ->
              [fs |-> fs, task |-> [task EXCEPT !.pc = next]]
          [] task.pc = "writing" ->
              LET w == write_status(fs, Unwrap(task.status),
                                    Unwrap(args.log_dir), env.io)
              IN  [fs   |-> w.fs,
                   task |-> IF IsOk(w.res)
                            THEN go("write", <<>>, task.tx, task.status)
                            ELSE Finish(task, "write", <<>>, w.res)]
          [] OTHER -> [fs |-> fs, task |-> task]

\* A future run to its end without interruption.
RECURSIVE RunUpload(_, _, _, _, _, _)
RunUpload(task, file_path, args, fs, env, t) ==
    IF task.pc \in {"done", "panicked"}
    THEN [task |-> task, fs |-> fs]
    ELSE LET s == UploadStep(task, file_path, args, fs, env, t)
         IN  RunUpload(s.task, file_path, args, s.fs, env, t)

\* The order of the steps of update_status (lib.rs 431-453).
UpdateNext(pc) ==
    CASE pc = "read"   -> "get"
      [] pc = "get"    -> "write"
      [] pc = "write"  -> "writing"
      [] OTHER         -> "done"

\* Methods::update_status (lib.rs 430-454), one step: [task, fs].
UpdateStep(task, file_path, args, fs, env, t) ==
    LET next == UpdateNext(task.pc)
        log_dir == Unwrap(args.log_dir)
        go(step, http, status) ==
            IF next = "done"
            THEN Finish([task EXCEPT !.status = status], step, http,
                        Ok(Unwrap(status)))
            ELSE [task EXCEPT !.pc = next, !.status = status,
                              !.steps = @ \o <<step>>, !.http = @ \o http]
    IN  CASE task.pc = "read" ->
              LET r == read_status(fs, file_path, log_dir)
              IN  [fs   |-> fs,
                   task |-> IF IsOk(r) THEN go("read", <<>>, r.val)
                            ELSE Finish(task, "read", <<>>, r)]
          [] task.pc = "get" ->
              LET r == IF env.get.ok
                       THEN apply_raw_status(Unwrap(task.status), env.get, t)
                       ELSE Err(ReqwestError)
                  answered == [task EXCEPT !.code = env.get.code]
              IN  [fs   |-> fs,
                   task |-> IF IsOk(r)
                            THEN [go("get", <<"GET status">>, r.val)
                                     EXCEPT !.code = answered.code]
                            ELSE Finish(answered, "get", <<"GET status">>, r)]
          [] task.pc = "write" ->
              [fs |-> fs, task |-> [task EXCEPT !.pc = next]]
          [] task.pc = "writing" ->
              LET w == write_status(fs, Unwrap(task.status), log_dir, env.io)
              IN  [fs   |-> w.fs,
                   task |-> IF IsOk(w.res)
                            THEN go("write", <<>>, task.status)
                            ELSE Finish(task, "write", <<>>, w.res)]
          [] OTHER -> [fs |-> fs, task |-> task]

RECURSIVE RunUpdate(_, _, _, _, _, _)
RunUpdate(task, file_path, args, fs, env, t) ==
    IF task.pc \in {"done", "panicked"}
    THEN [task |-> task, fs |-> fs]
    ELSE LET s == UpdateStep(task, file_path, args, fs, env, t)
         IN  RunUpdate(s.task, file_path, args, s.fs, env, t)

----------------------------------------------------------------------------
(* SpecApi: one caller, one call after the other *)

MaxApiCalls == 2     \* SpecApi: calls made in one behaviour
MaxTxCalls  == 3     \* SpecTx: calls made in one behaviour

OptionOf(S) == {None} \cup {Some(x) : x \in S}

\* last_tx and reward as the tests pass them, or absent.
LastTxArgs == {None, Some(<<"LCwsLCwsLA">>)}
RewardArgs == {None, Some(0)}

\* The paths and the arguments of the uploads of SpecApi.
ApiPaths == {"a.png", "b.png"}
ApiUploadArgs ==
    {Args(dir, None, None, None) : dir \in OptionOf(StreamLogDirs)}
    \cup {Args(dir, None, Some(<<"LCwsLCwsLA">>), Some(0)) :
              dir \in OptionOf(StreamLogDirs)}

\* The call just made: its name, its path and log_dir arguments, the status
\* file it addressed as it was before the call, the time of the call, and
\* in hand the transaction and status the caller holds, the output and the
\* requests of the call.
Direct(n, op, path, dir, before, at, resp, hand) ==
    [n |-> n, op |-> op, path |-> path, dir |-> dir, before |-> before,
     at |-> at, resp |-> resp, hand |-> hand]

NoCall == Direct(0, "none", None, None, AbsentFile, 0, NetFail, IdleTask)

FileAt(fs, path, dir) == fs[dir][StatusFileName(path)]

\* No batch call made: the call record at rest.
IdleCall ==
    [state |-> "idle", kind |-> "none", paths |-> <<>>,
     args |-> Args(None, None, None, None), buffer |-> 0, next |-> 1,
     fs0 |-> EmptyJournal]

\* A call starts from the values in hand, with no output yet.
Hand(pc) ==
    [direct.hand EXCEPT !.pc = pc, !.res = NoResult, !.steps = <<>>,
                        !.http = <<>>]

ApiIdle == call.state = "idle" /\ direct.n < MaxApiCalls
TxIdle  == call.state = "idle" /\ direct.n < MaxTxCalls

ApiFrame == UNCHANGED <<call, tasks, emitted>>

ApiTick ==
    /\ call.state = "idle" /\ direct.n > 0 /\ now < MaxClock
    /\ now' = now + 1
    /\ UNCHANGED <<journal, direct, call, tasks, emitted>>

\* arweave.create_transaction_from_file_path(path, None, last_tx, reward)
ApiCreate ==
    /\ TxIdle
    /\ \E path \in Paths, last_tx \in LastTxArgs, reward \in RewardArgs,
          env \in CreateEnvs :
          LET r == create_transaction_from_file_path(path, None, last_tx,
                                                     reward, env)
          IN  /\ direct' = Direct(direct.n + 1, "create_transaction",
                                  Some(path), None, AbsentFile, now, NetFail,
                                  [Hand("done") EXCEPT
                                      !.tx = IF IsOk(r.res) THEN Unwrap(r.res.val)
                                             ELSE NoTransaction,
                                      !.res = r.res, !.http = r.http])
              /\ call' = [IdleCall EXCEPT
                              !.kind = "create_transaction",
                              !.args = Args(None, None, last_tx, reward)]
    /\ UNCHANGED <<journal, now, tasks, emitted>>

\* arweave.sign_transaction(transaction) on the transaction in hand
ApiSign ==
    /\ TxIdle /\ direct.hand.tx # NoTransaction
    /\ \E crypto \in BOOLEAN :
          LET r == sign_transaction(direct.hand.tx, crypto)
          IN  direct' = Direct(direct.n + 1, "sign_transaction", direct.path,
                               None, AbsentFile, now, NetFail,
                               [Hand("done") EXCEPT
                                   !.tx = IF IsOk(r) THEN Unwrap(r.val) ELSE @,
                                   !.res = r])
    /\ UNCHANGED <<journal, now>> /\ ApiFrame

\* arweave.post_transaction(&transaction, file_path) on the one in hand
ApiPost ==
    /\ TxIdle /\ direct.hand.tx # NoTransaction
    /\ \E file_path \in {None, direct.path}, resp \in PostResponses :
          LET r == post_transaction(direct.hand.tx, file_path, resp, now)
          IN  direct' = Direct(direct.n + 1, "post_transaction", direct.path,
                               None, AbsentFile, now, resp,
                               [Hand(IF r.res.kind = "Panic" THEN "panicked"
                                     ELSE "done") EXCEPT
                                   !.status = r.res.val, !.res = r.res,
                                   !.http = r.http])
    /\ UNCHANGED <<journal, now>> /\ ApiFrame

\* The statuses a caller can pass from the one in hand: Status has public
\* fields, so it may come without id or without file_path.
Variants(status) ==
    {status, [status EXCEPT !.id = EmptyB64], [status EXCEPT !.file_path = None],
     [status EXCEPT !.id = EmptyB64, !.file_path = None]}

\* arweave.write_status(status, log_dir)
ApiWrite ==
    /\ ApiIdle /\ direct.hand.status # None
    /\ \E status \in Variants(Unwrap(direct.hand.status)), dir \in LogDirs,
          io \in WriteOutcomes :
          LET w == write_status(journal, status, dir, io)
          IN  /\ journal' = w.fs
              /\ direct' = Direct(direct.n + 1, "write_status", status.file_path,
                                  Some(dir),
                                  IF status.file_path # None
                                  THEN FileAt(journal, Unwrap(status.file_path), dir)
                                  ELSE AbsentFile,
                                  now, NetFail,
                                  [Hand("done") EXCEPT !.status = Some(status),
                                                       !.res = w.res])
    /\ UNCHANGED now /\ ApiFrame

\* arweave.read_status(file_path, log_dir)
ApiRead ==
    /\ ApiIdle
    /\ \E path \in ApiPaths, dir \in LogDirs :
          LET r == read_status(journal, path, dir)
          IN  direct' = Direct(direct.n + 1, "read_status", Some(path), Some(dir),
                               FileAt(journal, path, dir), now, NetFail,
                               [Hand("done") EXCEPT !.status = r.val, !.res = r])
    /\ UNCHANGED <<journal, now>> /\ ApiFrame

\* arweave.update_status(file_path, log_dir)
ApiUpdate ==
    /\ ApiIdle
    /\ \E path \in ApiPaths, dir \in LogDirs, env \in UpdateEnvs :
          LET u == RunUpdate(NewTask("read"), path,
                             Args(Some(dir), None, None, None), journal, env, now)
          IN  /\ journal' = u.fs
              /\ direct' = Direct(direct.n + 1, "update_status", Some(path),
                                  Some(dir), FileAt(journal, path, dir), now,
                                  env.get, [u.task EXCEPT !.tx = NoTransaction])
    /\ UNCHANGED now /\ ApiFrame

\* arweave.upload_file_from_path(file_path, log_dir, None, last_tx, reward)
ApiUpload ==
    /\ ApiIdle
    /\ \E path \in ApiPaths, args \in ApiUploadArgs :
       \E env \in UploadEnvsFor(args) :
          LET u == RunUpload(NewTask("create"), path, args, journal, env, now)
          IN  /\ journal' = u.fs
              /\ direct' = Direct(direct.n + 1, "upload_file_from_path",
                                  Some(path), args.log_dir,
                                  IF args.log_dir # None
                                  THEN FileAt(journal, path, Unwrap(args.log_dir))
                                  ELSE AbsentFile,
                                  now, env.post,
                                  [u.task EXCEPT !.tx = NoTransaction])
    /\ UNCHANGED now /\ ApiFrame

\* The log directories as an earlier run may have left them: empty, or
\* holding the status of a.png, uploaded and then confirmed.
AllOk(get) == StepEnv(CreateEnv(TRUE, None, Some(1), TRUE), TRUE,
                      Http(200, "", None), get, "ok")

SeedArgs == Args(Some("logs"), None, Some(<<"LCwsLCwsLA">>), Some(0))

SeedJournal ==
    LET up == RunUpload(NewTask("create"), "a.png", SeedArgs, EmptyJournal,
                        AllOk(NetFail), 0)
        raw == [block_height |-> 7, number_of_confirmations |-> MaxConfirms]
    IN  RunUpdate(NewTask("read"), "a.png", SeedArgs, up.fs,
                  AllOk(Http(200, "object", Some(raw))), 0).fs

InitJournals == {EmptyJournal, SeedJournal}

Init ==
    /\ journal \in InitJournals
    /\ now = 0
    /\ direct = NoCall
    /\ call = IdleCall
    /\ tasks = [p \in Paths |-> IdleTask]
    /\ emitted = <<>>

----------------------------------------------------------------------------
(* Spec: upload_files_stream and update_statuses_stream *)

\* The path lists the streams are given: no path twice in one list.
PathLists ==
    {<<"a.png">>, <<"b.png", "a.png">>, <<"a.png", "b.png", "c.png">>}

\* The stream in the consumer's hands: stream::iter(paths).map(f)
\* .buffer_unordered(buffer).  next is the position of the iterator; fs0 is
\* the log directories as they were when the stream was created.
Stream(state, kind, paths, args, buffer, next, fs0) ==
    [state |-> state, kind |-> kind, paths |-> paths, args |-> args,
     buffer |-> buffer, next |-> next, fs0 |-> fs0]

Range(seq) == {seq[i] : i \in 1..Len(seq)}

\* The futures buffer_unordered holds: pulled from the iterator, not yet
\* completed.
InFlight == {p \in Paths : tasks[p].pc \notin {"idle", "done", "panicked", "abandoned"}}

\* A buffer that pulls whatever the iterator has.
CanPull_unbounded(in_progress, max) == TRUE

\* BufferUnordered::poll_next pulls the next future while
\* in_progress_queue.len() < max.
CanPull(in_progress, max) == in_progress < max

PullEnabled ==
    /\ call.state = "running"
    /\ call.next <= Len(call.paths)
    /\ CanPull(Cardinality(InFlight), call.buffer)

\* upload_files_stream(arweave, paths_iter, log_dir, last_tx, reward, buffer)
CallUploadStream ==
    /\ call.state = "idle" /\ direct = NoCall
    /\ \E paths \in PathLists, args \in ApiUploadArgs, buffer \in 1..MaxBuffer :
          call' = Stream("running", "upload", paths, args, buffer, 1, journal)
    /\ UNCHANGED <<journal, now, direct, tasks, emitted>>

\* update_statuses_stream(arweave, paths_iter, log_dir, buffer)
CallUpdateStream ==
    /\ call.state = "idle" /\ direct = NoCall
    /\ \E paths \in PathLists, dir \in StreamLogDirs, buffer \in 1..MaxBuffer :
          call' = Stream("running", "update", paths,
                         Args(Some(dir), None, None, None), buffer, 1, journal)
    /\ UNCHANGED <<journal, now, direct, tasks, emitted>>

\* poll_next: the next path is mapped to its future and pushed to the queue.
Pull ==
    /\ PullEnabled
    /\ tasks' = [tasks EXCEPT ![call.paths[call.next]] =
                    NewTask(IF call.kind = "upload" THEN "create" ELSE "read")]
    /\ call' = [call EXCEPT !.next = @ + 1]
    /\ UNCHANGED <<journal, now, direct, emitted>>

EnvsFor(pc) ==
    CASE pc = "create"  -> CreateStepEnvs
      [] pc = "sign"    -> SignStepEnvs
      [] pc = "post"    -> PostStepEnvs
      [] pc = "get"     -> GetStepEnvs
      [] pc = "writing" -> WriteStepEnvs
      [] OTHER          -> {AllOk(NetFail)}

\* poll_next, the queue being full or the iterator exhausted: a future in the
\* queue runs to its next await.  A future that completes leaves the queue
\* and its output is the item poll_next returns; one that panics unwinds
\* through poll_next into the consumer, and the stream is dropped.
Step(p) ==
    /\ call.state = "running" /\ ~PullEnabled
    /\ p \in InFlight
    /\ \E env \in EnvsFor(tasks[p].pc) :
          LET s == IF call.kind = "upload"
                   THEN UploadStep(tasks[p], p, call.args, journal, env, now)
                   ELSE UpdateStep(tasks[p], p, call.args, journal, env, now)
          IN  /\ tasks' = [tasks EXCEPT ![p] = s.task]
              /\ journal' = s.fs
              /\ emitted' = IF s.task.pc = "done"
                            THEN Append(emitted, [path |-> p, res |-> s.task.res])
                            ELSE emitted
              /\ call' = IF s.task.pc = "panicked"
                         THEN [call EXCEPT !.state = "panicked"]
                         ELSE call
    /\ UNCHANGED <<now, direct>>

\* poll_next returns None: the iterator is exhausted and the queue empty.
Exhaust ==
    /\ call.state = "running"
    /\ call.next > Len(call.paths) /\ InFlight = {}
    /\ call' = [call EXCEPT !.state = "exhausted"]
    /\ UNCHANGED <<journal, now, direct, tasks, emitted>>

\* The consumer drops the stream: the futures in the queue are dropped where
\* they stand.
Drop ==
    /\ call.state = "running"
    /\ call' = [call EXCEPT !.state = "dropped"]
    /\ UNCHANGED <<journal, now, direct, tasks, emitted>>

\* A write handed to the blocking pool before the stream was dropped still
\* runs; nobody receives its result.
DetachedWrite(p) ==
    /\ call.state \in {"dropped", "panicked", "failed"}
    /\ tasks[p].pc = "writing"
    /\ \E io \in WriteOutcomes :
          journal' = write_status(journal, Unwrap(tasks[p].status),
                                  Unwrap(call.args.log_dir), io).fs
    /\ tasks' = [tasks EXCEPT ![p].pc = "abandoned"]
    /\ UNCHANGED <<now, direct, call, emitted>>

\* The clock advances.  It is read by post_transaction and update_status
\* only, so it is let to advance when a future stands at one of them.
Tick ==
    /\ call.state = "running" /\ now < MaxClock
    /\ \E p \in InFlight : tasks[p].pc \in {"post", "get"}
    /\ now' = now + 1
    /\ UNCHANGED <<journal, direct, call, tasks, emitted>>

Next ==
    \/ CallUploadStream \/ CallUpdateStream \/ Pull \/ Exhaust \/ Drop \/ Tick
    \/ \E p \in Paths : Step(p)
    \/ \E p \in Paths : DetachedWrite(p)

Spec == Init /\ [][Next]_vars

\* The caller makes, signs and posts transactions.
NextTx == ApiTick \/ ApiCreate \/ ApiSign \/ ApiPost

SpecTx == Init /\ [][NextTx]_vars

\* The caller uploads files and reads, writes and updates their statuses.
NextApi == ApiTick \/ ApiUpload \/ ApiWrite \/ ApiRead \/ ApiUpdate

SpecApi == Init /\ [][NextApi]_vars

----------------------------------------------------------------------------
(* SpecJoin: upload_files_from_paths *)

\* The tags of the paths: one Option<Vec<Tag>> per path, as many as paths.
TagNames == <<"tag1", "tag2", "tag3">>
TagsIter(paths) ==
    [i \in 1..Len(paths) |-> IF i = 2 THEN None ELSE Some(<<TagNames[i]>>)]

Index(paths, p) == CHOOSE i \in 1..Len(paths) : paths[i] = p

\* paths_iter.zip(tags_iter).map(|(p, t)| upload_file_from_path(p, log_dir,
\* t, last_tx, reward)), or the same with None for t: the arguments of the
\* future of path p.  call.args.tags holds tags_iter.
JoinArgs(p) ==
    Args(call.args.log_dir,
         IF call.args.tags # None
         THEN Unwrap(call.args.tags)[Index(call.paths, p)]
         ELSE None,
         call.args.last_tx, call.args.reward)

\* The outputs collected from the last path to the first.
JoinOutput_reversed(paths, ts) ==
    [i \in 1..Len(paths) |-> Unwrap(ts[paths[Len(paths) + 1 - i]].status)]

\* try_join_all: the outputs of the futures, each at the position of its
\* future in the iterator.
JoinOutput(paths, ts) ==
    [i \in 1..Len(paths) |-> Unwrap(ts[paths[i]].status)]

\* upload_files_from_paths has returned res to its caller.
JoinReturn(res) ==
    Direct(1, "upload_files_from_paths", None, call.args.log_dir, AbsentFile,
           now, NetFail, [IdleTask EXCEPT !.pc = "done", !.res = res])

\* arweave.upload_files_from_paths(paths_iter, log_dir, tags_iter, last_tx,
\* reward): try_join_all holds one future per path, all of them polled from
\* the start.
CallUploadFiles ==
    /\ call.state = "idle" /\ direct = NoCall
    /\ \E paths \in PathLists, args \in ApiUploadArgs :
       \E tags_iter \in {None, Some(TagsIter(paths))} :
          /\ call' = Stream("joining", "join", paths,
                            [args EXCEPT !.tags = tags_iter], Len(paths),
                            Len(paths) + 1, journal)
          /\ tasks' = [p \in Paths |-> IF p \in Range(paths)
                                       THEN NewTask("create") ELSE IdleTask]
    /\ UNCHANGED <<journal, now, direct, emitted>>

\* try_join_all polls a future, which runs to its next await.  When the
\* future returns Err, try_join_all returns that error at once and the
\* other futures are dropped where they stand; when the last one returns
\* Ok, it returns the vector of the outputs; a panic unwinds into the caller.
JoinStep(p) ==
    /\ call.state = "joining" /\ p \in InFlight
    /\ \E env \in EnvsFor(tasks[p].pc) :
          LET s   == UploadStep(tasks[p], p, JoinArgs(p), journal, env, now)
              ts  == [tasks EXCEPT ![p] = s.task]
              out == CASE s.task.pc = "panicked" -> "panicked"
                       [] s.task.pc = "done" /\ ~IsOk(s.task.res) -> "failed"
                       [] \A q \in Range(call.paths) : ts[q].pc = "done"
                                                     -> "returned"
                       [] OTHER -> "joining"
          IN  /\ tasks' = ts
              /\ journal' = s.fs
              /\ emitted' = IF s.task.pc = "done"
                            THEN Append(emitted, [path |-> p, res |-> s.task.res])
                            ELSE emitted
              /\ call' = [call EXCEPT !.state = out]
              /\ direct' = CASE out = "returned" ->
                                  JoinReturn(Ok(JoinOutput(call.paths, ts)))
                             [] out = "failed" -> JoinReturn(s.task.res)
                             [] OTHER -> direct
    /\ UNCHANGED now

JoinTick ==
    /\ call.state = "joining" /\ now < MaxClock
    /\ \E p \in InFlight : tasks[p].pc = "post"
    /\ now' = now + 1
    /\ UNCHANGED <<journal, direct, call, tasks, emitted>>

NextJoin ==
    \/ CallUploadFiles \/ JoinTick
    \/ \E p \in Paths : JoinStep(p)
    \/ \E p \in Paths : DetachedWrite(p)

SpecJoin == Init /\ [][NextJoin]_vars

----------------------------------------------------------------------------
(* SpecQuery: read_statuses, filter_statuses and status_summary *)

\* let confirms = if let Some(raw_status) = &s.raw_status { .. } else { 0 }
confirms(s) ==
    IF s.raw_status # None
    THEN Unwrap(s.raw_status).number_of_confirmations
    ELSE 0

\* A batch read that leaves out the paths it cannot read.
read_statuses_skip_missing(fs, paths, log_dir) ==
    LET out(p) == read_status(fs, p, log_dir)
        ok(p)  == IsOk(out(p))
        found  == SelectSeq(paths, ok)
    IN  Ok([i \in 1..Len(found) |-> Unwrap(out(found[i]).val)])

\* Methods::read_statuses (lib.rs 385-394): try_join_all over read_status,
\* the outputs in the order of the paths, or the first error.  A path
\* without a status file fails when it is first polled, before any file has
\* been read; a file that does not parse fails after its read.
read_statuses(fs, paths, log_dir) ==
    LET out(p)    == read_status(fs, p, log_dir)
        failed    == {i \in 1..Len(paths) : ~IsOk(out(paths[i]))}
        not_found == {i \in failed : out(paths[i]).err = StatusNotFound}
    IN  IF not_found # {}
        THEN Err(StatusNotFound)
        ELSE IF failed # {}
        THEN out(paths[CHOOSE i \in failed : TRUE])
        ELSE Ok([i \in 1..Len(paths) |-> Unwrap(out(paths[i]).val)])

\* filter_statuses keeping the records that pass either filter.
filter_statuses_either(fs, paths, log_dir, statuses, max_confirms) ==
    LET all == read_statuses(fs, paths, log_dir)
        any(s)  == \E i \in 1..Len(Unwrap(statuses)) : Unwrap(statuses)[i] = s.status
        few(s)  == confirms(s) <= Unwrap(max_confirms)
        either(s) == (statuses # None /\ any(s)) \/ (max_confirms # None /\ few(s))
    IN  IF ~IsOk(all) THEN all
        ELSE IF statuses = None /\ max_confirms = None THEN all
        ELSE Ok(SelectSeq(Unwrap(all.val), either))

\* Methods::filter_statuses (lib.rs 525-575)
filter_statuses(fs, paths, log_dir, statuses, max_confirms) ==
    LET all == read_statuses(fs, paths, log_dir)
        any(s)  == \E i \in 1..Len(Unwrap(statuses)) : Unwrap(statuses)[i] = s.status
        few(s)  == confirms(s) <= Unwrap(max_confirms)
        both(s) == any(s) /\ few(s)
    IN  IF ~IsOk(all)
        THEN all
        ELSE LET all_statuses == Unwrap(all.val)
             IN  Ok(IF statuses # None
                    THEN IF max_confirms # None
                         THEN SelectSeq(all_statuses, both)
                         ELSE SelectSeq(all_statuses, any)
                    ELSE IF max_confirms # None
                         THEN SelectSeq(all_statuses, few)
                         ELSE all_statuses)

\* The lines of the summary: the header, a rule, and a row of label and count.
HeaderLine  == <<"status", "count">>
RuleLine    == <<"-----------------------------">>
Row(k, v)   == <<k, v>>

\* for k in vec![Submitted, Pending, NotFound, Confirmed]
SummaryOrder == <<"Submitted", "Pending", "NotFound", "Confirmed">>

\* status_counts.get(&k).unwrap_or(&0)
status_counts(statuses, k) ==
    Cardinality({i \in 1..Len(statuses) : statuses[i].status = k})

\* A summary with a row for each status that was counted.
status_summary_counted(fs, paths, log_dir) ==
    LET all == read_statuses(fs, paths, log_dir)
    IN  IF ~IsOk(all)
        THEN all
        ELSE LET statuses == Unwrap(all.val)
                 v(k)     == status_counts(statuses, k)
                 seen(k)  == v(k) > 0
                 keys     == SelectSeq(SummaryOrder, seen)
                 rows     == [i \in 1..Len(keys) |-> Row(keys[i], v(keys[i]))]
             IN  Ok(<<HeaderLine, RuleLine>> \o rows
                    \o <<RuleLine, Row("Total", Len(statuses))>>)

\* Methods::status_summary (lib.rs 396-428): the lines of the output.
status_summary(fs, paths, log_dir) ==
    LET all == read_statuses(fs, paths, log_dir)
    IN  IF ~IsOk(all)
        THEN all
        ELSE LET statuses == Unwrap(all.val)
                 v(k)     == status_counts(statuses, k)
                 rows     == [i \in 1..Len(SummaryOrder) |->
                                 Row(SummaryOrder[i], v(SummaryOrder[i]))]
                 total    == v("Submitted") + v("Pending") + v("NotFound")
                               + v("Confirmed")
             IN  Ok(<<HeaderLine, RuleLine>> \o rows
                    \o <<RuleLine, Row("Total", total)>>)

\* The status file of a path as earlier calls have left it in "logs": none,
\* the record of its upload, that record after update_status was answered
\* 202, 404 or a status object, the confirmed record answered 202 later, or
\* a file cut short by a failed write.
Uploaded(path) ==
    RunUpload(NewTask("create"), path, SeedArgs, EmptyJournal, AllOk(NetFail), 0).fs

UpdatedBy(fs, path, resp) ==
    RunUpdate(NewTask("read"), path, SeedArgs, fs, AllOk(resp), 0).fs

FilesLeft(path) ==
    LET up == Uploaded(path)
        confirmed(n) ==
            UpdatedBy(up, path, Http(200, "object",
                      Some([block_height |-> 7, number_of_confirmations |-> n])))
    IN  {AbsentFile, PartialFile, FileAt(up, path, "logs")}
        \cup {FileAt(UpdatedBy(up, path, Http(c, "", None)), path, "logs") :
                  c \in {202, 404}}
        \cup {FileAt(confirmed(n), path, "logs") : n \in 0..MaxConfirms}
        \cup {FileAt(UpdatedBy(confirmed(MaxConfirms), path, Http(202, "", None)),
                     path, "logs")}

QueryJournals ==
    {[EmptyJournal EXCEPT !["logs"] = [f \in FileNames |-> files[f[2]]]] :
        files \in {fn \in [Paths -> UNION {FilesLeft(p) : p \in Paths}] :
                      \A p \in Paths : fn[p] \in FilesLeft(p)}}

InitQuery ==
    /\ journal \in QueryJournals
    /\ now = 0
    /\ direct = NoCall
    /\ call = IdleCall
    /\ tasks = [p \in Paths |-> IdleTask]
    /\ emitted = <<>>

\* The filters the caller passes to filter_statuses.
StatusFilters ==
    {None, Some(<<"Confirmed">>), Some(<<"Submitted", "Pending">>),
     Some(<<"Pending", "NotFound", "Confirmed">>)}
ConfirmFilters == OptionOf(0..MaxConfirms)

QueryArgs(log_dir, statuses, max_confirms) ==
    [log_dir |-> log_dir, statuses |-> statuses, max_confirms |-> max_confirms]

\* A batch call that has returned: call holds its name and arguments, direct
\* its output.
Returned(op, paths, args, res) ==
    /\ call' = [IdleCall EXCEPT !.kind = op, !.paths = paths, !.args = args]
    /\ direct' = Direct(1, op, None, Some(args.log_dir), AbsentFile, now, NetFail,
                        [IdleTask EXCEPT !.pc = "done", !.res = res])
    /\ UNCHANGED <<journal, now, tasks, emitted>>

\* arweave.read_statuses(paths_iter, log_dir)
QueryRead ==
    \E paths \in PathLists, dir \in StreamLogDirs :
        Returned("read_statuses", paths, QueryArgs(dir, None, None),
                 read_statuses(journal, paths, dir))

\* arweave.filter_statuses(paths_iter, log_dir, statuses, max_confirms)
QueryFilter ==
    \E paths \in PathLists, dir \in StreamLogDirs, statuses \in StatusFilters,
       max_confirms \in ConfirmFilters :
        Returned("filter_statuses", paths, QueryArgs(dir, statuses, max_confirms),
                 filter_statuses(journal, paths, dir, statuses, max_confirms))

\* arweave.status_summary(paths_iter, log_dir)
QuerySummary ==
    \E paths \in PathLists, dir \in StreamLogDirs :
        Returned("status_summary", paths, QueryArgs(dir, None, None),
                 status_summary(journal, paths, dir))

NextQuery == QueryRead \/ QueryFilter \/ QuerySummary

SpecQuery == InitQuery /\ [][NextQuery]_vars

----------------------------------------------------------------------------
(* Claims *)

PostCalled == direct.op = "post_transaction"

\* C1: post_transaction called with a transaction whose id is empty returns
\* the UnsignedTransaction error and sends no HTTP request, whatever the
\* network would have answered.
C1_UnsignedPostRejected ==
    (PostCalled /\ direct.hand.tx.id = EmptyB64)
        => /\ direct.hand.res = Err(UnsignedTransaction)
           /\ direct.hand.http = <<>>
           /\ direct.hand.status = None

\* The unsigned result of create_transaction_from_file_path was posted to a
\* network that would have answered 200.
C1_Witness ==
    /\ PostCalled
    /\ direct.hand.tx.id = EmptyB64
    /\ direct.hand.tx.data = FileData("a.png")
    /\ direct.resp = Http(200, "", None)
    /\ direct.hand.res = Err(UnsignedTransaction)

\* C4: when the network answers the POST of a signed transaction with a code
\* other than 200, post_transaction returns the error PostFailed(code), and
\* no Status is produced.
C4_PostFailedReturned ==
    (PostCalled /\ direct.hand.tx.id # EmptyB64 /\ direct.resp.ok
       /\ direct.resp.code # 200)
        => /\ direct.hand.res = Err(PostFailed(direct.resp.code))
           /\ direct.hand.status = None

UploadStream == call.kind = "upload"

AtPc(pc) == {p \in Paths : tasks[p].pc = pc}

\* C2: in upload_files_stream and update_statuses_stream with buffer >= 1,
\* the tasks started and not yet finished never number more than buffer; in
\* particular no more than buffer POSTs are in flight at once.
C2_InFlightBounded ==
    call.state # "idle"
        => /\ call.buffer >= 1
           /\ Cardinality(InFlight) <= call.buffer
           /\ Cardinality(AtPc("post")) <= call.buffer

\* Three paths and buffer = 2: two POSTs are in flight, the third path waits.
C2_Witness ==
    /\ UploadStream /\ call.state = "running"
    /\ Len(call.paths) = 3 /\ call.buffer = 2
    /\ Cardinality(AtPc("post")) = 2
    /\ call.next = 3

Items(p) == {i \in 1..Len(emitted) : emitted[i].path = p}

\* C3: in upload_files_stream a path whose create, sign, post or write-status
\* step fails yields an Err item, the stream goes on with the other paths,
\* and a stream driven to its end has yielded exactly one item per path.
C3_FailureYieldsErrItem ==
    UploadStream =>
        /\ \A p \in Paths :
              (tasks[p].res.kind \notin {"None", "Ok"})
                  => /\ \E i \in Items(p) : emitted[i].res.kind = "Err"
                     /\ call.state # "panicked"
        /\ call.state \in {"exhausted", "panicked"}
              => \A p \in Range(call.paths) : Cardinality(Items(p)) = 1

IsPrefix(s, t) == Len(s) <= Len(t) /\ \A i \in 1..Len(s) : s[i] = t[i]

\* C7: one upload_file_from_path runs create, sign, post, write-status in
\* this order, each step only after the one before it succeeded; the status
\* is written only after the POST was answered 200 and only with log_dir set.
C7_StepsInOrder ==
    UploadStream =>
        \A p \in Paths :
            LET t == tasks[p]
                ran == IF t.pc \in {"done", "panicked"} /\ ~IsOk(t.res)
                       THEN SubSeq(t.steps, 1, Len(t.steps) - 1)
                       ELSE t.steps
            IN  /\ IsPrefix(t.steps, <<"create", "sign", "post", "write">>)
                /\ t.pc = "sign"  => ran = <<"create">>
                /\ t.pc = "post"  => ran = <<"create", "sign">> /\ t.tx.id # EmptyB64
                /\ (t.pc \in {"write", "writing", "abandoned"}
                      \/ (Len(t.steps) = 4))
                     => /\ ran = <<"create", "sign", "post">> \/ Len(ran) = 4
                        /\ t.code = 200
                        /\ t.http[Len(t.http)] = "POST tx"
                        /\ call.args.log_dir # None
                /\ FileAt(journal, p, "logs") # FileAt(call.fs0, p, "logs")
                     => /\ t.pc \in {"done", "abandoned"}
                        /\ t.code = 200
                        /\ SubSeq(t.steps, 1, 3) = <<"create", "sign", "post">>

\* An upload with log_dir set has run its four steps and written its status.
C7_Witness ==
    /\ UploadStream
    /\ \E p \in Paths :
          /\ tasks[p].steps = <<"create", "sign", "post", "write">>
          /\ IsOk(tasks[p].res)
          /\ FileAt(journal, p, "logs") = JsonFile(to_json(Unwrap(tasks[p].status)))

\* The paths of a dropped stream whose upload did not complete.
Abandoned ==
    {p \in Range(call.paths) : tasks[p].pc \notin {"done", "panicked"}}

\* The original C8: after the consumer drops the upload stream, every
\* abandoned path has no status file or one whose status is Submitted.
C8_AbsentOrSubmitted ==
    (UploadStream /\ call.state = "dropped") =>
        \A p \in Abandoned, d \in call.args.log_dir :
            LET file == FileAt(journal, p, d)
            IN  \/ file = AbsentFile
                \/ /\ file.kind = "json"
                   /\ Unwrap(file.text).status = <<"str", "Submitted">>

\* C8 (amended): after the consumer drops the upload stream, the status file
\* of every abandoned path is as it was when the stream was created, or
\* holds the record of this upload with status Submitted, or was left
\* truncated by the failed write of that record.
C8_UntouchedOrSubmitted ==
    (UploadStream /\ call.state = "dropped") =>
        \A p \in Abandoned, d \in call.args.log_dir :
            LET file == FileAt(journal, p, d)
                written == tasks[p].pc = "abandoned"
            IN  \/ file = FileAt(call.fs0, p, d)
                \/ written /\ file = PartialFile
                \/ /\ written
                   /\ read_status(journal, p, d) =
                        Ok(new_status(tasks[p].tx.id, tasks[p].tx.reward, Some(p),
                                      Unwrap(tasks[p].status).created_at))

\* The stream was dropped with a write handed over; the write then completed
\* and left a Submitted record where there was none.
C8_Witness ==
    /\ UploadStream /\ call.state = "dropped"
    /\ \E p \in Abandoned :
          /\ tasks[p].pc = "abandoned"
          /\ FileAt(call.fs0, p, "logs") = AbsentFile
          /\ FileAt(journal, p, "logs").kind = "json"
          /\ Unwrap(FileAt(journal, p, "logs").text).status = <<"str", "Submitted">>

Called(op) == direct.op = op

\* The status passed to write_status, or returned by the call.
InHand == Unwrap(direct.hand.status)

\* What read_status returns now for the path and log_dir of the last call.
ReadBack == read_status(journal, Unwrap(direct.path), Unwrap(direct.dir))

\* C5: for every status with file_path set and a non-empty id, and every
\* log_dir, write_status followed by read_status of the status's file_path
\* returns a record equal to the one written.
C5_WriteThenRead ==
    (Called("write_status") /\ IsOk(direct.hand.res))
        => /\ InHand.file_path # None /\ InHand.id # EmptyB64
           /\ ReadBack = Ok(InHand)

\* A record with raw_status, read from one log_dir, was written to the other.
C5_Witness ==
    /\ Called("write_status") /\ IsOk(direct.hand.res)
    /\ direct.dir = Some("logs2")
    /\ InHand.raw_status # None
    /\ InHand.status = "Confirmed"
    /\ FileAt(journal, "a.png", "logs2").kind = "json"

RecordsOf(p, d) ==
    {f \in FileNames : /\ journal[d][f].kind = "json"
                       /\ Unwrap(journal[d][f].text).file_path = Some(p)}

\* The last call wrote a status over the record of the same path with
\* another id.
Overwrote ==
    /\ Called("write_status") \/ Called("upload_file_from_path")
    /\ IsOk(direct.hand.res) /\ direct.dir # None
    /\ direct.before.kind = "json"
    /\ Unwrap(direct.before.text).id # <<"b64">> \o InHand.id

\* C6: a log_dir holds at most one status record per file_path: a second
\* status written with the same file_path and another id replaces the
\* first, and read_status returns the record written last.
C6_OneRecordPerPath ==
    /\ \A d \in LogDirs, p \in Paths : Cardinality(RecordsOf(p, d)) <= 1
    /\ Overwrote
         => /\ ReadBack = Ok(InHand)
            /\ \A f \in FileNames : journal[Unwrap(direct.dir)][f] # direct.before

\* a.png, uploaded and confirmed earlier, was uploaded again under a new id.
C6_Witness ==
    /\ Overwrote /\ Called("upload_file_from_path")
    /\ direct.path = Some("a.png")
    /\ direct.before = FileAt(SeedJournal, "a.png", "logs")
    /\ Cardinality(RecordsOf("a.png", "logs")) = 1

\* The last call was update_status, the endpoint answered resp and the call
\* returned Ok.
Updated(resp) ==
    /\ Called("update_status") /\ direct.resp = resp /\ IsOk(direct.hand.res)

\* C9: when the status endpoint answers 200 with the body "Pending",
\* update_status sets status to Pending and clears raw_status, in the record
\* returned and in the record persisted, whatever raw_status was before.
C9_PendingClearsRawStatus ==
    Updated(Http(200, "Pending", None))
        => /\ InHand.status = "Pending"
           /\ InHand.raw_status = None
           /\ ReadBack = Ok(InHand)

\* The record update_status read.
Before == Unwrap(from_json(Unwrap(direct.before.text)).val)

\* C10: when the status endpoint answers 202 (404), update_status sets status
\* to Pending (NotFound), leaves raw_status and the other fields as they
\* were, sets last_modified to the time of the call and rewrites the status
\* file with that record; it fails only if the write fails.
C10_AcceptedAndNotFound ==
    \A code \in {202, 404} :
        (Called("update_status") /\ direct.resp = Http(code, "", None)
           /\ direct.before.kind = "json")
            => LET new == [Before EXCEPT
                              !.status = IF code = 202 THEN "Pending" ELSE "NotFound",
                              !.last_modified = direct.at]
               IN  IF IsOk(direct.hand.res)
                   THEN /\ direct.hand.res = Ok(new)
                        /\ FileAt(journal, Unwrap(direct.path), Unwrap(direct.dir))
                             = JsonFile(to_json(new))
                   ELSE direct.hand.res = Err(IoError)

\* A confirmed record was answered 202 at a later time: it is Pending, with
\* the raw_status it had.
C10_Witness ==
    /\ Updated(Http(202, "", None))
    /\ Before.status = "Confirmed" /\ Before.raw_status # None
    /\ direct.at > Before.last_modified
    /\ InHand.raw_status = Before.raw_status
    /\ ReadBack = Ok(InHand)

\* C11: when the status endpoint answers with an HTTP code other than 200,
\* 202 or 404, update_status returns the error UnexpectedStatus(code) to its
\* caller and does not panic.
C11_UnexpectedStatusReturned ==
    (Called("update_status") /\ direct.before.kind = "json" /\ direct.resp.ok
       /\ direct.resp.code \notin {200, 202, 404})
        => /\ direct.hand.pc # "panicked"
           /\ direct.hand.res = Err(UnexpectedStatus(direct.resp.code))

\* C12: whenever update_status returns an error (missing status file, network
\* failure, unreadable 200 body, unexpected HTTP code or failed write), the
\* status file of the path is identical to the file before the call.
C12_ErrorLeavesRecord ==
    (Called("update_status") /\ direct.hand.res.kind = "Err")
        => FileAt(journal, Unwrap(direct.path), Unwrap(direct.dir)) = direct.before

\* The records read one by one for the paths of the batch call, in order
\* (every path of the call has a readable record).
Readable ==
    \A i \in 1..Len(call.paths) :
        IsOk(read_status(journal, call.paths[i], call.args.log_dir))

RecordsRead ==
    [i \in 1..Len(call.paths) |->
        Unwrap(read_status(journal, call.paths[i], call.args.log_dir).val)]

\* The record passes the filters given to the call.
Passes(s) ==
    /\ call.args.statuses # None
         => s.status \in Range(Unwrap(call.args.statuses))
    /\ call.args.max_confirms # None
         => (IF s.raw_status = None THEN 0
             ELSE Unwrap(s.raw_status).number_of_confirmations)
                <= Unwrap(call.args.max_confirms)

\* C13: filter_statuses returns, in input order, exactly the records read for
\* the given paths whose status is in statuses (when given) and whose
\* number_of_confirmations, 0 without raw_status, is <= max_confirms (when
\* given); with neither filter it returns every record read.
C13_FilterBothFilters ==
    (Called("filter_statuses") /\ Readable)
        => /\ direct.hand.res = Ok(SelectSeq(RecordsRead, Passes))
           /\ (call.args.statuses = None /\ call.args.max_confirms = None)
                => direct.hand.res = Ok(RecordsRead)

\* Three records, both filters given: one record is left out for its status,
\* one for its confirmations, and one without raw_status is kept.
C13_Witness ==
    /\ Called("filter_statuses") /\ Readable
    /\ Len(call.paths) = 3
    /\ call.args.statuses # None /\ call.args.max_confirms = Some(0)
    /\ \E i, j, k \in 1..3 :
          /\ RecordsRead[i].status \notin Range(Unwrap(call.args.statuses))
          /\ RecordsRead[j].status = "Confirmed" /\ confirms(RecordsRead[j]) > 0
          /\ RecordsRead[k].raw_status = None
          /\ direct.hand.res = Ok(<<RecordsRead[k]>>)

\* The rows of the summary that are neither the header nor a rule.
DataRows ==
    SelectSeq(Unwrap(direct.hand.res.val),
              LAMBDA line : line \notin {HeaderLine, RuleLine})

\* C14: status_summary outputs exactly five data rows in the order Submitted,
\* Pending, NotFound, Confirmed, Total, also for statuses whose count is
\* zero; each of the first four rows shows the number of read records with
\* that status.
C14_SummaryFiveRows ==
    (Called("status_summary") /\ IsOk(direct.hand.res))
        => /\ Readable
           /\ Len(DataRows) = 5
           /\ [i \in 1..5 |-> DataRows[i][1]]
                = <<"Submitted", "Pending", "NotFound", "Confirmed", "Total">>
           /\ \A i \in 1..4 :
                 DataRows[i][2] =
                     Cardinality({j \in 1..Len(RecordsRead) :
                                     RecordsRead[j].status = DataRows[i][1]})

\* Three records, two of them Pending and none Submitted or NotFound.
C14_Witness ==
    /\ Called("status_summary") /\ IsOk(direct.hand.res)
    /\ Len(call.paths) = 3
    /\ DataRows = <<Row("Submitted", 0), Row("Pending", 2), Row("NotFound", 0),
                    Row("Confirmed", 1), Row("Total", 3)>>

\* The paths of the batch call without a status file.
Missing ==
    {i \in 1..Len(call.paths) :
        FileAt(journal, call.paths[i], call.args.log_dir) = AbsentFile}

\* C16: read_status for a path without a status file in log_dir fails with
\* StatusNotFound; read_statuses, filter_statuses and status_summary fail
\* with that error when one of their paths has no status file, and return no
\* partial result.
C16_MissingFileFailsBatch ==
    /\ \A p \in Paths, d \in LogDirs :
          FileAt(journal, p, d) = AbsentFile
              => read_status(journal, p, d) = Err(StatusNotFound)
    /\ (direct.op \in {"read_statuses", "filter_statuses", "status_summary"}
          /\ Missing # {})
        => /\ direct.hand.res = Err(StatusNotFound)
           /\ direct.hand.res.val = {}

\* Three paths, the first two with a record and the third without a file.
C16_Witness ==
    /\ Called("read_statuses")
    /\ Len(call.paths) = 3 /\ Missing = {3}
    /\ IsOk(read_status(journal, call.paths[1], call.args.log_dir))
    /\ direct.hand.res = Err(StatusNotFound)

\* C15: write_status fails with MissingFilePath when the status has no
\* file_path and with UnsignedTransaction when its id is empty (and it has
\* a file_path), and in both cases no file of any log_dir is created or
\* modified.
C15_PreconditionsBeforeWrite ==
    [][(direct'.op = "write_status" /\ direct' # direct) =>
          LET status == Unwrap(direct'.hand.status)
          IN  /\ status.file_path = None
                   => direct'.hand.res = Err(MissingFilePath) /\ journal' = journal
              /\ (status.file_path # None /\ status.id = EmptyB64)
                   => direct'.hand.res = Err(UnsignedTransaction)
                        /\ journal' = journal]_vars

\* A status without id was passed for a path and a log_dir that have no
\* status file; the call failed and there is still none.
C15_Witness ==
    /\ Called("write_status")
    /\ InHand.id = EmptyB64 /\ InHand.file_path = Some("b.png")
    /\ direct.hand.res = Err(UnsignedTransaction)
    /\ direct.before = AbsentFile
    /\ FileAt(journal, "b.png", Unwrap(direct.dir)) = AbsentFile

\* C20: create_transaction_from_file_path requests the price only if reward
\* is absent: with reward supplied no price request is made, the
\* transaction carries the supplied reward and creation does not depend on
\* the price endpoint; with last_tx supplied too it makes no request at all.
C20_PriceOnlyWithoutReward ==
    (Called("create_transaction") /\ call.args.reward # None)
        => /\ "GET price" \notin Range(direct.hand.http)
           /\ IsOk(direct.hand.res)
                => direct.hand.tx.reward = Unwrap(call.args.reward)
           /\ call.args.last_tx # None
                => /\ direct.hand.http = <<>>
                   /\ direct.hand.res.kind = "Err"
                        => direct.hand.res.err = IoError

JoinCall == call.kind = "join"

\* C17: when upload_files_from_paths succeeds, its result holds exactly one
\* Status per input path and the i-th Status is the one of the i-th path,
\* whatever the order in which the uploads completed; with tags_iter
\* supplied, the i-th tag list was applied to the i-th path.
C17_JoinKeepsInputOrder ==
    (JoinCall /\ call.state = "returned") =>
        /\ IsOk(direct.hand.res)
        /\ LET statuses == Unwrap(direct.hand.res.val)
           IN  /\ Len(statuses) = Len(call.paths)
               /\ \A i \in 1..Len(call.paths) :
                     LET t == tasks[call.paths[i]]
                     IN  /\ statuses[i].file_path = Some(call.paths[i])
                         /\ statuses[i].id = t.tx.id
                         /\ t.tx.data = FileData(call.paths[i])
                         /\ t.res = Ok(statuses[i])
                         /\ t.tx.tags =
                              <<"Content-Type">> \o
                              (IF call.args.tags = None THEN <<>>
                               ELSE IF Unwrap(call.args.tags)[i] = None THEN <<>>
                               ELSE Unwrap(Unwrap(call.args.tags)[i]))

\* Three paths with their tags: the upload of the last path completed
\* first, and the result is in the order of the paths.
C17_Witness ==
    /\ JoinCall /\ call.state = "returned"
    /\ Len(call.paths) = 3 /\ call.args.tags # None
    /\ emitted[1].path = call.paths[3]
    /\ Unwrap(direct.hand.res.val)[1].file_path = Some(call.paths[1])
    /\ Unwrap(direct.hand.res.val)[3].file_path = Some(call.paths[3])

\* C18: upload_files_from_paths returns only after every upload has run to
\* completion, also when one of the uploads fails: when it returns, with the
\* vector or with the first error, no upload is left part-way.
C18_JoinWaitsForAll ==
    (JoinCall /\ call.state \in {"returned", "failed"}) =>
        \A p \in Range(call.paths) : tasks[p].pc = "done"

Count(seq, x) == Cardinality({i \in 1..Len(seq) : seq[i] = x})

\* C19: an error is final for its task: within one call each input path is
\* POSTed at most once, no create, sign, post or write step is attempted a
\* second time, and a task that failed has ended with the step that failed.
C19_ErrorIsFinal ==
    (UploadStream \/ JoinCall) =>
        \A p \in Paths :
            LET t == tasks[p]
            IN  /\ Count(t.http, "POST tx") <= 1
                /\ IsPrefix(t.steps, <<"create", "sign", "post", "write">>)
                /\ Cardinality(Items(p)) <= 1
                /\ t.res.kind \in {"Err", "Panic"}
                     => /\ t.pc \in {"done", "panicked"}
                        /\ t.steps # <<>>
                /\ (t.steps # <<>> /\ t.pc \notin {"done", "panicked"})
                     => t.res = NoResult

\* The POST of a path failed on the network; the stream yielded the error,
\* went on with the other path and ended, the failed path POSTed once.
C19_Witness ==
    /\ UploadStream /\ call.state = "exhausted" /\ Len(call.paths) >= 2
    /\ \E p, q \in Range(call.paths) :
          /\ tasks[p].res = Err(ReqwestError)
          /\ tasks[p].steps = <<"create", "sign", "post">>
          /\ Count(tasks[p].http, "POST tx") = 1
          /\ IsOk(tasks[q].res)
          /\ emitted[1].path = p /\ emitted[2].path = q

\* The paths whose status file in log_dir d is not as it was when the call
\* was made.
Rewritten(d) == {q \in Paths : FileAt(journal, q, d) # FileAt(call.fs0, q, d)}

\* C21: under any interleaving of the concurrent uploads or status updates
\* of distinct paths that share one log_dir, each task writes only the file
\* named after its own path: the record stored under the key of path p has
\* file_path = p, and a status file is changed by the task of its path only,
\* which leaves there its own status (or the file cut short); the files of
\* other directories are left alone.
C21_OwnFileOnly ==
    call.kind \in {"upload", "update"} =>
        /\ \A d \in LogDirs \ call.args.log_dir : journal[d] = call.fs0[d]
        /\ \A d \in call.args.log_dir, q \in Paths :
              LET file == FileAt(journal, q, d)
              IN  /\ file.kind = "json"
                       => Unwrap(file.text).file_path = Some(q)
                  /\ q \in Rewritten(d)
                       => /\ tasks[q].pc \in {"done", "abandoned"}
                          /\ file \in {PartialFile,
                                       JsonFile(to_json(Unwrap(tasks[q].status)))}

\* One upload has written the file of its path and the writes of the two
\* other paths are under way at once, into the same log_dir.
C21_Witness ==
    /\ UploadStream /\ call.buffer = 2 /\ Len(call.paths) = 3
    /\ \E p \in Rewritten("logs") :
          /\ tasks[p].pc = "done"
          /\ FileAt(journal, p, "logs") = JsonFile(to_json(Unwrap(tasks[p].status)))
          /\ AtPc("writing") = Paths \ {p}

\* The records persisted in log_dir d.
Persisted(d) ==
    {Unwrap(journal[d][f].text) : f \in {g \in FileNames : journal[d][g].kind = "json"}}

\* C22: after any sequence of uploads and update_status calls every persisted
\* record whose status is Confirmed has raw_status present, and an
\* update_status answered 200 with a status object persists Confirmed with
\* the raw_status of that response.
C22_ConfirmedHasRawStatus ==
    /\ \A d \in LogDirs : \A rec \in Persisted(d) :
          rec.status = <<"str", "Confirmed">> => rec.raw_status # None
    /\ \A r \in RawStatuses :
          Updated(Http(200, "object", Some(r)))
              => /\ InHand.status = "Confirmed"
                 /\ InHand.raw_status = Some(r)
                 /\ ReadBack = Ok(InHand)

\* A record uploaded in this run, without raw_status, was confirmed by a 200
\* response and holds the raw_status of the response.
C22_Witness ==
    /\ \E r \in RawStatuses : Updated(Http(200, "object", Some(r)))
    /\ Before.status = "Submitted" /\ Before.raw_status = None
    /\ FileAt(journal, Unwrap(direct.path), Unwrap(direct.dir))
         = JsonFile(to_json([Before EXCEPT !.status = "Confirmed",
                                           !.raw_status = direct.resp.raw,
                                           !.last_modified = direct.at]))

\* C23: a successful update_status(p, log_dir) changes only the fields
\* status, raw_status and last_modified of the record of p: its id,
\* file_path, reward and created_at are unchanged, the record returned is
\* the record persisted, and every other status file is unchanged.
C23_UpdateChangesThreeFields ==
    [][(direct'.op = "update_status" /\ direct' # direct
          /\ IsOk(direct'.hand.res)) =>
          LET p   == Unwrap(direct'.path)
              d   == Unwrap(direct'.dir)
              old == read_status(journal, p, d)
              new == read_status(journal', p, d)
          IN  /\ IsOk(old) /\ IsOk(new)
              /\ new = direct'.hand.res
              /\ \A field \in {"id", "file_path", "reward", "created_at"} :
                    Unwrap(new.val)[field] = Unwrap(old.val)[field]
              /\ \A d2 \in LogDirs, q \in Paths :
                    <<d2, q>> # <<d, p>>
                        => FileAt(journal', q, d2) = FileAt(journal, q, d2)]_vars

\* At a later time a record was updated to another status next to the
\* record of another path in the same log_dir.
C23_Witness ==
    /\ Called("update_status") /\ IsOk(direct.hand.res)
    /\ Cardinality(Persisted(Unwrap(direct.dir))) = 2
    /\ InHand.status # Before.status
    /\ InHand.last_modified > Before.last_modified
    /\ InHand.created_at = Before.created_at
    /\ ReadBack = Ok(InHand)

\* C24: no operation persists the status Failed: an upload writes Submitted
\* and a successful update_status writes Pending, NotFound or Confirmed;
\* hence, over the status files uploads and updates leave, the Total row of
\* status_summary equals the number of paths summarised.
C24_TotalIsNumberOfPaths ==
    /\ \A d \in LogDirs : \A rec \in Persisted(d) :
          /\ rec.status # <<"str", "Failed">>
          /\ rec.status[2] \in Range(SummaryOrder)
    /\ (Called("status_summary") /\ IsOk(direct.hand.res))
          => DataRows[Len(DataRows)] = Row("Total", Len(call.paths))

\* Three paths summarised, one of them just uploaded and one not found on
\* the network: the total is three.
C24_Witness ==
    /\ Called("status_summary") /\ IsOk(direct.hand.res)
    /\ Len(call.paths) = 3
    /\ DataRows[1] = Row("Submitted", 1)
    /\ DataRows[3] = Row("NotFound", 1)
    /\ DataRows[5] = Row("Total", 3)

====
